---------------------------- MODULE Spec2Model ----------------------------
(***************************************************************************)
(* Model of the confession-guessing game backend (src/main.py).           *)
(*                                                                         *)
(* The backend keeps no state of its own: every handler is a sequence of   *)
(* calls to an external REST store with the tables sessions, players,     *)
(* confessions, guesses and leaderboard.  The state of the model is the    *)
(* content of those tables, the handlers that are between two store calls  *)
(* (req), and the request that completed last together with its response  *)
(* (last).  One step of the model is one store call of one handler plus    *)
(* the local computation that follows it up to the next store call, so     *)
(* concurrent requests interleave exactly at their awaits.                 *)
(*                                                                         *)
(* Every store call may fail (a non-success HTTP status), which the model  *)
(* draws as the parameter st of the step.                                  *)
(***************************************************************************)
EXTENDS Integers, Sequences, FiniteSets, Bags, TLC

VARIABLES sessions, players, confessions, guesses, leaderboard, req, last

vars == <<sessions, players, confessions, guesses, leaderboard, req, last>>

store == <<sessions, players, confessions, guesses, leaderboard>>

-----------------------------------------------------------------------------
(* Bounds of the model *)

\* handlers that may be between two store calls at the same time
NumReqs == 2
\* rows a table may hold
MaxRows == 2
\* largest current_round a next-round request may read and still be started
MaxRound == 3
\* sessions that may be created
MaxSessions == 1

-----------------------------------------------------------------------------
(* Inputs *)

\* "AI" followed by the robot emoji in the source: the author name of an
\* injected confession
AI == "AI"

\* username, guesser and guessed_username are unvalidated strings
Usernames == {"alice", AI}

\* uuid4 values and the session ids a caller may name
SessionIds == {"s1", "s2"}

\* texts are sequences of characters; " " is the whitespace character
RawTexts == {<< >>, <<" ">>, <<"a">>}

\* what the generation service may answer
Contents == {<<" ">>, <<" ", "a">>}

\* the confession texts a guess may name
GuessTexts == {<< >>, <<"a">>}

\* submit-score takes any integer
Scores == {2, 5}

\* limit: int = 10
DefaultLimit == 10

\* the limits a caller may ask for
Limits == {1, DefaultLimit}

Reqs == 1..NumReqs

\* the HTTP status of a store call: the success status of the call or a failure
ReadStatuses == {200, 503}
InsertStatuses == {201, 503}
PatchStatuses == {204, 503}

\* whether a send on an httpx client that was closed raises RuntimeError (an
\* httpx that checks the client's state) or sends the request (one that does
\* not): the source pins no version
ClosedClientRaises == BOOLEAN

-----------------------------------------------------------------------------
(* Pure functions of the source *)

RECURSIVE LStrip(_)
LStrip(t) == IF t # << >> /\ Head(t) = " " THEN LStrip(Tail(t)) ELSE t

RECURSIVE RStrip(_)
RStrip(t) ==
  IF t # << >> /\ t[Len(t)] = " " THEN RStrip(SubSeq(t, 1, Len(t) - 1)) ELSE t

\* str.strip()
Strip(t) == RStrip(LStrip(t))

\* Confession.must_not_be_empty: "if not v.strip(): raise ValueError"
must_not_be_empty(v) == Strip(v) # << >>

\* status != "active": what makes confess and guess answer 403
OnlyEndedForbidden(status) == status = "ended"

NotActive(status) == status # "active"

\* is_correct = actual_username == guess.guessed_username
IsCorrect(actual_username, guessed_username) == actual_username = guessed_username

\* the bonus branch left out
ScoreNoBonus(actual_username, guessed_username, is_correct) ==
  IF is_correct THEN 2 ELSE 0

\* the if / elif / else that sets score
Score(actual_username, guessed_username, is_correct) ==
  IF actual_username = AI /\ guessed_username = AI THEN 5
  ELSE IF is_correct THEN 2
  ELSE 0

-----------------------------------------------------------------------------
(* The store: tables are bags of rows *)

NoSession == [status |-> "none", current_round |-> 0]

Rows(table) == BagToSet(table)

\* a store that refuses a row it holds
InsertUnique(table, row) ==
  IF row \in BagToSet(table) THEN table ELSE table (+) SetToBag({row})

\* POST of one row: the tables have no unique constraint the source relies on
Insert(table, row) == table (+) SetToBag({row})

\* the lists in which the store may answer the rows of a bag: no order is asked
RECURSIVE Orders(_)
Orders(B) ==
  IF BagToSet(B) = {} THEN {<< >>}
  ELSE UNION {{<<x>> \o o : o \in Orders(B (-) SetToBag({x}))} : x \in BagToSet(B)}

\* the elements of a list with their multiplicities
SeqToBag(list) ==
  [x \in {list[i] : i \in 1..Len(list)} |->
     Cardinality({i \in 1..Len(list) : list[i] = x})]

\* random.shuffle(list): any permutation of the list
Shuffles(list) == Orders(SeqToBag(list))

\* the session filter left out
ConfessionsOfAnySession(s) == confessions

\* GET confessions?session_id=eq.s
SessionConfessions(s) ==
  [c \in {x \in Rows(confessions) : x.session_id = s} |->
     CopiesIn(c, confessions)]

\* GET leaderboard?session_id=eq.s
SessionLeaderboard(s) ==
  [e \in {x \in Rows(leaderboard) : x.session_id = s} |->
     CopiesIn(e, leaderboard)]

\* the order parameter left out
Unordered(B) == Orders(B)

\* order=score.desc: the rows by falling score, rows of one score in any order
OrderByScoreDesc(B) ==
  {o \in Orders(B) : \A i \in 1..(Len(o) - 1) : o[i].score >= o[i + 1].score}

\* limit=n: the first n rows
Limit(list, n) == SubSeq(list, 1, IF n < Len(list) THEN n ELSE Len(list))

\* select=username,score
SelectUsernameScore(list) ==
  [i \in 1..Len(list) |-> [username |-> list[i].username, score |-> list[i].score]]

\* GET players?username=eq.u&session_id=eq.s
PlayerRows(u, s) == {p \in Rows(players) : p.username = u /\ p.session_id = s}

\* GET confessions?username=eq.u&session_id=eq.s
ConfessionRows(u, s) ==
  {c \in Rows(confessions) : c.username = u /\ c.session_id = s}

\* GET guesses?session_id=eq.s&confession=eq.t&guesser=eq.g
GuessRows(g, s, t) ==
  {x \in Rows(guesses) : x.guesser = g /\ x.session_id = s /\ x.confession = t}

\* GET confessions?session_id=eq.s&confession=eq.t&select=username
AuthorRows(s, t) ==
  {c \in Rows(confessions) : c.session_id = s /\ c.confession = t}

\* PATCH players?username=eq.u&session_id=eq.s {"is_ready": b}
PatchReady(u, s, b) ==
  LET upd(p) == IF p.username = u /\ p.session_id = s
                THEN [p EXCEPT !.is_ready = b] ELSE p
      new == {upd(p) : p \in Rows(players)}
      n(q, v) == CopiesIn([q EXCEPT !.is_ready = v], players)
  IN  [q \in new |->
         IF q.username = u /\ q.session_id = s
         THEN n(q, TRUE) + n(q, FALSE)
         ELSE CopiesIn(q, players)]

-----------------------------------------------------------------------------
(* Requests *)

\* the frame of a handler: its arguments, its position and its locals
\* (check_resp is the status_code of the response to the existence read:
\* check_resp in join_game and submit_confession, existing in make_guess)
Idle ==
  [op |-> "idle", pc |-> "idle", username |-> "-", session_id |-> "-",
   text |-> << >>, guessed |-> "-", limit |-> 0, current_round |-> 0,
   check_resp |-> 0,
   actual |-> "-", is_correct |-> FALSE, score |-> 0]

\* what a handler answered, and to which request: the session_id and the
\* limit of the request, the HTTP status, the message or error text of the body, the
\* store's status_code in a body that reports a failed store call, the list
\* in a body that is or holds a list, and the locals of make_guess at its
\* return
NoResponse ==
  [op |-> "none", session_id |-> "-", limit |-> 0, status |-> 0, body |-> "-",
   status_code |-> 0, rows |-> << >>,
   guessed |-> "-", actual |-> "-", is_correct |-> FALSE, score |-> 0]

Response(q, st, b, sc) ==
  [op |-> q.op, session_id |-> q.session_id, limit |-> q.limit,
   status |-> st, body |-> b,
   status_code |-> sc, rows |-> << >>,
   guessed |-> q.guessed, actual |-> q.actual, is_correct |-> q.is_correct,
   score |-> q.score]

Free(r) == req[r].op = "idle"

InFlight(op) == Cardinality({r \in Reqs : req[r].op = op})

NoneInFlight == \A r \in Reqs : Free(r)

\* a request arrives: its handler is at its first store call
Receive(r, q, pc) ==
  /\ Free(r)
  /\ req' = [req EXCEPT ![r] = [q EXCEPT !.pc = pc]]
  /\ UNCHANGED <<last, store>>

At(r, op, pc) == req[r].op = op /\ req[r].pc = pc

\* request q of slot r answers
Done(r, q, st, b) ==
  /\ last' = Response(q, st, b, 0)
  /\ req' = [req EXCEPT ![r] = Idle]

\* request q of slot r answers 200 with {"error", "details", "status_code"}
DoneUpstream(r, q, b, sc) ==
  /\ last' = Response(q, 200, b, sc)
  /\ req' = [req EXCEPT ![r] = Idle]

\* response.raise_for_status() raises httpx.HTTPStatusError
Raises(st) == st >= 400

\* request q goes on to its next store call
Goto(r, q, pc) ==
  /\ req' = [req EXCEPT ![r] = [q EXCEPT !.pc = pc]]
  /\ UNCHANGED last

\* a handler of one store call answers
Answer(op, st, b) ==
  /\ last' = Response([Idle EXCEPT !.op = op], st, b, 0)
  /\ UNCHANGED req

\* a handler of one store call answers request q with a list
AnswerRows(q, st, b, sc, rows) ==
  /\ last' = [Response(q, st, b, sc) EXCEPT !.rows = rows]
  /\ UNCHANGED req

\* a table has room for the rows of the requests in flight and one more
Room(table, op) == BagCardinality(table) + InFlight(op) < MaxRows

-----------------------------------------------------------------------------
Init ==
  /\ sessions = [s \in SessionIds |-> NoSession]
  /\ players = EmptyBag
  /\ confessions = EmptyBag
  /\ guesses = EmptyBag
  /\ leaderboard = EmptyBag
  /\ req = [r \in Reqs |-> Idle]
  /\ last = NoResponse

-----------------------------------------------------------------------------
(* POST /create-session, /start-session/{id}, /end-session/{id} *)

\* uuid.uuid4() is an id no session has
create_session(s, st) ==
  /\ sessions[s] = NoSession
  /\ Cardinality({x \in SessionIds : sessions[x] # NoSession}) < MaxSessions
  /\ IF Raises(st)
     THEN /\ UNCHANGED sessions
          /\ Answer("create_session", 500, "Internal Server Error")
     ELSE /\ sessions' = [sessions EXCEPT ![s] = [status |-> "waiting", current_round |-> 1]]
          /\ Answer("create_session", 200, "session_id")
  /\ UNCHANGED <<players, confessions, guesses, leaderboard>>

\* a PATCH that creates the row it does not find
PatchStatusUpsert(s, v) ==
  IF sessions[s] = NoSession
  THEN [sessions EXCEPT ![s] = [status |-> v, current_round |-> 1]]
  ELSE [sessions EXCEPT ![s].status = v]

\* PATCH sessions?id=eq.s {"status": v}: every row with that id, none if there is none
PatchStatus(s, v) ==
  IF sessions[s] = NoSession THEN sessions
  ELSE [sessions EXCEPT ![s].status = v]

start_session(s, st) ==
  /\ IF Raises(st)
     THEN /\ UNCHANGED sessions
          /\ Answer("start_session", 500, "Internal Server Error")
     ELSE /\ sessions' = PatchStatus(s, "active")
          /\ Answer("start_session", 200, "Session started")
  /\ UNCHANGED <<players, confessions, guesses, leaderboard>>

end_session(s, st) ==
  /\ IF Raises(st)
     THEN /\ UNCHANGED sessions
          /\ Answer("end_session", 500, "Internal Server Error")
     ELSE /\ sessions' = PatchStatus(s, "ended")
          /\ Answer("end_session", 200, "Session ended")
  /\ UNCHANGED <<players, confessions, guesses, leaderboard>>

-----------------------------------------------------------------------------
(* POST /next-round/{session_id} *)

next_round_receive(r, s) ==
  /\ sessions[s].current_round < MaxRound
  /\ Receive(r, [Idle EXCEPT !.op = "next_round", !.session_id = s], "read")

\* the GET of current_round
next_round_read(r, st) ==
  /\ At(r, "next_round", "read")
  /\ LET q == req[r]
         s == q.session_id
     IN  IF st # 200 \/ sessions[s] = NoSession
         THEN Done(r, q, 404, "Session not found")
         ELSE Goto(r, [q EXCEPT !.current_round = sessions[s].current_round], "update")
  /\ UNCHANGED store

\* the round is written back as it was read
SameRound(current_round) == current_round

\* new_round = current_round + 1
NewRound(current_round) == current_round + 1

\* the PATCH of current_round + 1
next_round_update(r, st) ==
  /\ At(r, "next_round", "update")
  /\ LET q == req[r]
         new_round == NewRound(q.current_round)
     IN  IF Raises(st)
         THEN /\ UNCHANGED sessions
              /\ Done(r, q, 500, "Internal Server Error")
         ELSE /\ sessions' = [sessions EXCEPT ![q.session_id].current_round = new_round]
              /\ Done(r, [q EXCEPT !.current_round = new_round], 200, "Advanced to round")
  /\ UNCHANGED <<players, confessions, guesses, leaderboard>>

-----------------------------------------------------------------------------
(* POST /join, POST /toggle-ready *)

join_game_receive(r, u, s) ==
  /\ Room(players, "join_game")
  /\ Receive(r, [Idle EXCEPT !.op = "join_game", !.username = u, !.session_id = s],
             "check")

\* the GET that looks for the player
join_game_check(r, st) ==
  /\ At(r, "join_game", "check")
  /\ LET q == req[r]
         u == q.username
         s == q.session_id
     IN  IF st = 200 /\ PlayerRows(u, s) # {}
         THEN Done(r, q, 200, "Player already in session")
         ELSE Goto(r, [q EXCEPT !.check_resp = st], "insert")
  /\ UNCHANGED store

\* the POST of the player with is_ready = False
join_game_insert(r, st) ==
  /\ At(r, "join_game", "insert")
  /\ LET q == req[r]
     IN  IF Raises(st)
         THEN /\ UNCHANGED players
              /\ DoneUpstream(r, q, "Join failed", st)
         ELSE /\ players' = Insert(players,
                    [username |-> q.username, session_id |-> q.session_id,
                     is_ready |-> FALSE])
              /\ Done(r, q, 200, "Player joined successfully")
  /\ UNCHANGED <<sessions, confessions, guesses, leaderboard>>

toggle_ready(u, s, b, st) ==
  /\ IF st # 204
     THEN /\ UNCHANGED players
          /\ Answer("toggle_ready", 400, "Could not update ready status")
     ELSE /\ players' = PatchReady(u, s, b)
          /\ Answer("toggle_ready", 200, "Player readiness updated")
  /\ UNCHANGED <<sessions, confessions, guesses, leaderboard>>

-----------------------------------------------------------------------------
(* POST /confess, POST /inject-ai-confession/{session_id} *)

submit_confession_receive(r, u, s, t) ==
  /\ Room(confessions, "submit_confession")
  /\ Receive(r, [Idle EXCEPT !.op = "submit_confession", !.username = u,
                             !.session_id = s, !.text = t], "session")

\* the validation of the body, then the GET of the session's status
submit_confession_session(r, st) ==
  /\ At(r, "submit_confession", "session")
  /\ LET q == req[r]
         s == q.session_id
     IN  IF ~must_not_be_empty(q.text)
         THEN Done(r, q, 422, "Confession cannot be empty or just whitespace")
         ELSE IF st # 200 \/ sessions[s] = NoSession
         THEN Done(r, q, 404, "Session not found")
         ELSE IF NotActive(sessions[s].status)
         THEN Done(r, q, 403, "Session not active yet")
         ELSE Goto(r, q, "check")
  /\ UNCHANGED store

\* the GET that looks for a confession of the user in the session
submit_confession_check(r, st) ==
  /\ At(r, "submit_confession", "check")
  /\ LET q == req[r]
     IN  IF st = 200 /\ ConfessionRows(q.username, q.session_id) # {}
         THEN Done(r, q, 409, "You have already submitted a confession")
         ELSE Goto(r, [q EXCEPT !.check_resp = st], "insert")
  /\ UNCHANGED store

\* the POST of the confession, refused if the session is no longer active
submit_confession_insert_if_active(r, st) ==
  /\ At(r, "submit_confession", "insert")
  /\ LET q == req[r]
     IN  IF NotActive(sessions[q.session_id].status)
         THEN /\ UNCHANGED confessions
              /\ Done(r, q, 403, "Session not active yet")
         ELSE IF Raises(st)
         THEN /\ UNCHANGED confessions
              /\ DoneUpstream(r, q, "Confession failed", st)
         ELSE /\ confessions' = Insert(confessions,
                    [username |-> q.username, session_id |-> q.session_id,
                     confession |-> q.text])
              /\ Done(r, q, 200, "Confession submitted successfully")
  /\ UNCHANGED <<sessions, players, guesses, leaderboard>>

\* the POST of the confession
submit_confession_insert(r, st) ==
  /\ At(r, "submit_confession", "insert")
  /\ LET q == req[r]
     IN  IF Raises(st)
         THEN /\ UNCHANGED confessions
              /\ DoneUpstream(r, q, "Confession failed", st)
         ELSE /\ confessions' = Insert(confessions,
                    [username |-> q.username, session_id |-> q.session_id,
                     confession |-> q.text])
              /\ Done(r, q, 200, "Confession submitted successfully")
  /\ UNCHANGED <<sessions, players, guesses, leaderboard>>

\* the injection behind the session gate of submit_confession
inject_ai_confession_gated(s, content, st) ==
  /\ Room(confessions, "submit_confession")
  /\ IF sessions[s] = NoSession
     THEN /\ UNCHANGED confessions
          /\ Answer("inject_ai_confession", 404, "Session not found")
     ELSE IF NotActive(sessions[s].status)
     THEN /\ UNCHANGED confessions
          /\ Answer("inject_ai_confession", 403, "Session not active yet")
     ELSE IF Raises(st)
     THEN /\ UNCHANGED confessions
          /\ Answer("inject_ai_confession", 500, "Internal Server Error")
     ELSE /\ confessions' = Insert(confessions,
                [username |-> AI, session_id |-> s, confession |-> Strip(content)])
          /\ Answer("inject_ai_confession", 200, "AI confession added")
  /\ UNCHANGED <<sessions, players, guesses, leaderboard>>

\* the injection with the duplicate check of submit_confession
inject_ai_confession_once(s, content, st) ==
  /\ Room(confessions, "submit_confession")
  /\ IF ConfessionRows(AI, s) # {}
     THEN /\ UNCHANGED confessions
          /\ Answer("inject_ai_confession", 409, "already submitted")
     ELSE IF Raises(st)
     THEN /\ UNCHANGED confessions
          /\ Answer("inject_ai_confession", 500, "Internal Server Error")
     ELSE /\ confessions' = Insert(confessions,
                [username |-> AI, session_id |-> s, confession |-> Strip(content)])
          /\ Answer("inject_ai_confession", 200, "AI confession added")
  /\ UNCHANGED <<sessions, players, guesses, leaderboard>>

\* generate_ai_confession returns the generated content, stripped; content is
\* what the generation service answered
inject_ai_confession(s, content, st) ==
  /\ Room(confessions, "submit_confession")
  /\ LET ai_confession == Strip(content)
     IN  IF Raises(st)
         THEN /\ UNCHANGED confessions
              /\ Answer("inject_ai_confession", 500, "Internal Server Error")
         ELSE /\ confessions' = Insert(confessions,
                    [username |-> AI, session_id |-> s, confession |-> ai_confession])
              /\ Answer("inject_ai_confession", 200, "AI confession added")
  /\ UNCHANGED <<sessions, players, guesses, leaderboard>>

\* GET /confessions/{session_id}: the texts of the session's confessions,
\* shuffled; a failed read is answered 200 with the store's status in the body
get_confessions(s, st) ==
  /\ IF st = 200
     THEN \E json \in Orders(SessionConfessions(s)) :
            LET confession_texts == [i \in 1..Len(json) |-> json[i].confession]
            IN  \E shuffled \in Shuffles(confession_texts) :
                  AnswerRows([Idle EXCEPT !.op = "get_confessions", !.session_id = s],
                             200, "confessions", 0, shuffled)
     ELSE AnswerRows([Idle EXCEPT !.op = "get_confessions", !.session_id = s],
                     200, "Failed to fetch confessions", st, << >>)
  /\ UNCHANGED store

-----------------------------------------------------------------------------
(* POST /guess *)

make_guess_receive(r, g, s, t, gu) ==
  /\ Room(guesses, "make_guess")
  /\ Receive(r, [Idle EXCEPT !.op = "make_guess", !.username = g,
                             !.session_id = s, !.text = t, !.guessed = gu],
             "session")

\* the GET of the session's status
make_guess_session(r, st) ==
  /\ At(r, "make_guess", "session")
  /\ LET q == req[r]
         s == q.session_id
     IN  IF st # 200 \/ sessions[s] = NoSession
         THEN Done(r, q, 404, "Session not found")
         ELSE IF NotActive(sessions[s].status)
         THEN Done(r, q, 403, "Guessing not allowed")
         ELSE Goto(r, q, "existing")
  /\ UNCHANGED store

\* the GET that looks for a guess of the guesser on the confession
make_guess_existing(r, st) ==
  /\ At(r, "make_guess", "existing")
  /\ LET q == req[r]
     IN  IF st = 200 /\ GuessRows(q.username, q.session_id, q.text) # {}
         THEN Done(r, q, 200, "You've already guessed this confession")
         ELSE Goto(r, [q EXCEPT !.check_resp = st], "author")
  /\ UNCHANGED store

\* The GET of the confession's author and what follows it up to the next
\* store call.  The statements from "if actual_username == ..." on are
\* indented outside the "async with" block, and the statements that save the
\* guess and return the result are indented inside the "else:" branch.  So
\* the branches that set score = 5 and score = 2 fall off the end of the
\* function (the response body is null), and the else branch goes on to the
\* POST of the guess, on a client the "async with" has closed.
make_guess_author(r, st) ==
  /\ At(r, "make_guess", "author")
  /\ LET q == req[r]
         data == AuthorRows(q.session_id, q.text)
     IN  IF st # 200
         THEN DoneUpstream(r, q, "Failed to fetch confession", st)
         ELSE IF data = {}
         THEN Done(r, q, 200, "Confession not found")
         ELSE \E row \in data :
                LET actual_username == row.username
                    is_correct == IsCorrect(actual_username, q.guessed)
                    score == Score(actual_username, q.guessed, is_correct)
                    scored == [q EXCEPT !.actual = actual_username,
                                        !.is_correct = is_correct,
                                        !.score = score]
                IN  IF (actual_username = AI /\ q.guessed = AI) \/ is_correct
                    THEN Done(r, scored, 200, "null")
                    ELSE Goto(r, scored, "save")
  /\ UNCHANGED store

\* the POST of the guess with correct and score, on the closed client
make_guess_save(r, closed, st) ==
  /\ At(r, "make_guess", "save")
  /\ LET q == req[r]
     IN  IF closed
         THEN /\ UNCHANGED guesses
              /\ Done(r, q, 500, "Internal Server Error")
         ELSE IF Raises(st)
         THEN /\ UNCHANGED guesses
              /\ DoneUpstream(r, q, "Guess save failed", st)
         ELSE /\ guesses' = Insert(guesses,
                    [guesser |-> q.username, session_id |-> q.session_id,
                     confession |-> q.text, guessed_username |-> q.guessed,
                     correct |-> q.is_correct, score |-> q.score])
              /\ Done(r, q, 200, "Guess recorded")
  /\ UNCHANGED <<sessions, players, confessions, leaderboard>>

-----------------------------------------------------------------------------
(* POST /submit-score *)

\* session_id is optional: "none" is a body without it
submit_score(u, score, s, st) ==
  /\ Room(leaderboard, "submit_score")
  /\ IF st # 201
     THEN /\ UNCHANGED leaderboard
          /\ Answer("submit_score", 400, "Score not saved")
     ELSE /\ leaderboard' = Insert(leaderboard,
                [username |-> u, score |-> score, session_id |-> s])
          /\ Answer("submit_score", 200, "Score saved")
  /\ UNCHANGED <<sessions, players, confessions, guesses>>

\* GET /leaderboard?limit=n
get_leaderboard(limit, st) ==
  /\ LET q == [Idle EXCEPT !.op = "get_leaderboard", !.limit = limit]
     IN  IF st # 200
         THEN AnswerRows(q, 400, "Failed to fetch leaderboard", 0, << >>)
         ELSE \E json \in OrderByScoreDesc(leaderboard) :
                AnswerRows(q, 200, "entries", 0,
                           SelectUsernameScore(Limit(json, limit)))
  /\ UNCHANGED store

\* GET /leaderboard/{session_id}?limit=n
get_session_leaderboard(s, limit, st) ==
  /\ LET q == [Idle EXCEPT !.op = "get_session_leaderboard", !.session_id = s,
                           !.limit = limit]
     IN  IF st # 200
         THEN AnswerRows(q, 400, "Failed to fetch session leaderboard", 0, << >>)
         ELSE \E json \in OrderByScoreDesc(SessionLeaderboard(s)) :
                AnswerRows(q, 200, "entries", 0,
                           SelectUsernameScore(Limit(json, limit)))
  /\ UNCHANGED store

-----------------------------------------------------------------------------
(* The system: every handler, requests interleaving at their store calls *)

Session ==
  \/ \E s \in SessionIds, st \in InsertStatuses : create_session(s, st)
  \/ \E s \in SessionIds, st \in PatchStatuses : start_session(s, st)
  \/ \E s \in SessionIds, st \in PatchStatuses : end_session(s, st)

Round ==
  \/ \E r \in Reqs, s \in SessionIds : next_round_receive(r, s)
  \/ \E r \in Reqs, st \in ReadStatuses : next_round_read(r, st)
  \/ \E r \in Reqs, st \in PatchStatuses : next_round_update(r, st)

Join ==
  \/ \E r \in Reqs, u \in Usernames, s \in SessionIds : join_game_receive(r, u, s)
  \/ \E r \in Reqs, st \in ReadStatuses : join_game_check(r, st)
  \/ \E r \in Reqs, st \in InsertStatuses : join_game_insert(r, st)
  \/ \E u \in Usernames, s \in SessionIds, b \in BOOLEAN, st \in PatchStatuses :
       toggle_ready(u, s, b, st)

Confess ==
  \/ \E r \in Reqs, u \in Usernames, s \in SessionIds, t \in RawTexts :
       submit_confession_receive(r, u, s, t)
  \/ \E r \in Reqs, st \in ReadStatuses : submit_confession_session(r, st)
  \/ \E r \in Reqs, st \in ReadStatuses : submit_confession_check(r, st)
  \/ \E r \in Reqs, st \in InsertStatuses : submit_confession_insert(r, st)
  \/ \E s \in SessionIds, content \in Contents, st \in InsertStatuses :
       inject_ai_confession(s, content, st)

Guess ==
  \/ \E r \in Reqs, g \in Usernames, s \in SessionIds, t \in GuessTexts,
        gu \in Usernames : make_guess_receive(r, g, s, t, gu)
  \/ \E r \in Reqs, st \in ReadStatuses : make_guess_session(r, st)
  \/ \E r \in Reqs, st \in ReadStatuses : make_guess_existing(r, st)
  \/ \E r \in Reqs, st \in ReadStatuses : make_guess_author(r, st)
  \/ \E r \in Reqs, closed \in ClosedClientRaises, st \in InsertStatuses :
       make_guess_save(r, closed, st)

Leaderboard ==
  \E u \in Usernames, score \in Scores, s \in SessionIds \cup {"none"},
     st \in InsertStatuses : submit_score(u, score, s, st)

Listing ==
  \/ \E s \in SessionIds, st \in ReadStatuses : get_confessions(s, st)
  \/ \E limit \in Limits, st \in ReadStatuses : get_leaderboard(limit, st)
  \/ \E s \in SessionIds, limit \in Limits, st \in ReadStatuses :
       get_session_leaderboard(s, limit, st)

Next == Session \/ Round \/ Join \/ Confess \/ Guess \/ Leaderboard \/ Listing

Spec == Init /\ [][Next]_vars

-----------------------------------------------------------------------------
(* The system restricted to the handlers that read or write the tables a   *)
(* group of properties is about.  A handler left out of a specification    *)
(* writes none of the tables the handlers in it read.  In a sequential     *)
(* specification a request arrives only while no handler is between two    *)
(* store calls (NoneInFlight).                                             *)

\* sessions: written by create, start, end and next-round, which read sessions
SessionNext == Session \/ Round
SessionSpec == Init /\ [][SessionNext]_vars

\* the same, sequential
SeqSessionNext ==
  \/ \E s \in SessionIds, st \in InsertStatuses :
       NoneInFlight /\ create_session(s, st)
  \/ \E s \in SessionIds, st \in PatchStatuses :
       NoneInFlight /\ start_session(s, st)
  \/ \E s \in SessionIds, st \in PatchStatuses :
       NoneInFlight /\ end_session(s, st)
  \/ \E r \in Reqs, s \in SessionIds :
       NoneInFlight /\ next_round_receive(r, s)
  \/ \E r \in Reqs, st \in ReadStatuses : next_round_read(r, st)
  \/ \E r \in Reqs, st \in PatchStatuses : next_round_update(r, st)
SeqSessionSpec == Init /\ [][SeqSessionNext]_vars

\* players: written by join and toggle-ready, which read players; sequential
JoinNext ==
  \/ \E r \in Reqs, u \in Usernames, s \in SessionIds :
       NoneInFlight /\ join_game_receive(r, u, s)
  \/ \E r \in Reqs, st \in ReadStatuses : join_game_check(r, st)
  \/ \E r \in Reqs, st \in InsertStatuses : join_game_insert(r, st)
  \/ \E u \in Usernames, s \in SessionIds, b \in BOOLEAN, st \in PatchStatuses :
       NoneInFlight /\ toggle_ready(u, s, b, st)
JoinSpec == Init /\ [][JoinNext]_vars

\* confessions and guesses: written by confess, inject and guess, which read
\* the status of sessions, confessions and guesses; sequential
SeqGameNext ==
  \/ \E s \in SessionIds, st \in InsertStatuses :
       NoneInFlight /\ create_session(s, st)
  \/ \E s \in SessionIds, st \in PatchStatuses :
       NoneInFlight /\ start_session(s, st)
  \/ \E s \in SessionIds, st \in PatchStatuses :
       NoneInFlight /\ end_session(s, st)
  \/ \E r \in Reqs, u \in Usernames, s \in SessionIds, t \in RawTexts :
       NoneInFlight /\ submit_confession_receive(r, u, s, t)
  \/ \E r \in Reqs, st \in ReadStatuses : submit_confession_session(r, st)
  \/ \E r \in Reqs, st \in ReadStatuses : submit_confession_check(r, st)
  \/ \E r \in Reqs, st \in InsertStatuses : submit_confession_insert(r, st)
  \/ \E s \in SessionIds, content \in Contents, st \in InsertStatuses :
       NoneInFlight /\ inject_ai_confession(s, content, st)
  \/ \E r \in Reqs, g \in Usernames, s \in SessionIds, t \in GuessTexts,
        gu \in Usernames : NoneInFlight /\ make_guess_receive(r, g, s, t, gu)
  \/ \E r \in Reqs, st \in ReadStatuses : make_guess_session(r, st)
  \/ \E r \in Reqs, st \in ReadStatuses : make_guess_existing(r, st)
  \/ \E r \in Reqs, st \in ReadStatuses : make_guess_author(r, st)
  \/ \E r \in Reqs, closed \in ClosedClientRaises, st \in InsertStatuses :
       make_guess_save(r, closed, st)
SeqGameSpec == Init /\ [][SeqGameNext]_vars

\* join and confess requests interleaving at their store calls with each
\* other and with create, start and end, every read of the store succeeding
RaceNext ==
  \/ \E s \in SessionIds, st \in InsertStatuses : create_session(s, st)
  \/ \E s \in SessionIds, st \in PatchStatuses : start_session(s, st)
  \/ \E s \in SessionIds, st \in PatchStatuses : end_session(s, st)
  \/ \E r \in Reqs, u \in Usernames, s \in SessionIds : join_game_receive(r, u, s)
  \/ \E r \in Reqs : join_game_check(r, 200)
  \/ \E r \in Reqs, st \in InsertStatuses : join_game_insert(r, st)
  \/ \E r \in Reqs, u \in Usernames, s \in SessionIds, t \in RawTexts :
       submit_confession_receive(r, u, s, t)
  \/ \E r \in Reqs : submit_confession_session(r, 200)
  \/ \E r \in Reqs : submit_confession_check(r, 200)
  \/ \E r \in Reqs, st \in InsertStatuses : submit_confession_insert(r, st)
RaceSpec == Init /\ [][RaceNext]_vars

\* confessions and their listing: written by confess and inject, listed by
\* get-confessions; sequential
ConfessionsNext ==
  \/ \E s \in SessionIds, st \in InsertStatuses :
       NoneInFlight /\ create_session(s, st)
  \/ \E s \in SessionIds, st \in PatchStatuses :
       NoneInFlight /\ start_session(s, st)
  \/ \E s \in SessionIds, st \in PatchStatuses :
       NoneInFlight /\ end_session(s, st)
  \/ \E r \in Reqs, u \in Usernames, s \in SessionIds, t \in RawTexts :
       NoneInFlight /\ submit_confession_receive(r, u, s, t)
  \/ \E r \in Reqs, st \in ReadStatuses : submit_confession_session(r, st)
  \/ \E r \in Reqs, st \in ReadStatuses : submit_confession_check(r, st)
  \/ \E r \in Reqs, st \in InsertStatuses : submit_confession_insert(r, st)
  \/ \E s \in SessionIds, content \in Contents, st \in InsertStatuses :
       NoneInFlight /\ inject_ai_confession(s, content, st)
  \/ \E s \in SessionIds, st \in ReadStatuses :
       NoneInFlight /\ get_confessions(s, st)
ConfessionsSpec == Init /\ [][ConfessionsNext]_vars

\* leaderboard: written by submit-score, listed by the two leaderboard reads
LeaderboardNext ==
  \/ \E u \in Usernames, score \in Scores, s \in SessionIds \cup {"none"},
        st \in InsertStatuses : submit_score(u, score, s, st)
  \/ \E limit \in Limits, st \in ReadStatuses : get_leaderboard(limit, st)
  \/ \E s \in SessionIds, limit \in Limits, st \in ReadStatuses :
       get_session_leaderboard(s, limit, st)
LeaderboardSpec == Init /\ [][LeaderboardNext]_vars

-----------------------------------------------------------------------------
(* Properties *)

\* rows of a table among the set S, with their multiplicities
RECURSIVE Copies(_, _)
Copies(table, S) ==
  IF S = {} THEN 0
  ELSE LET x == CHOOSE y \in S : TRUE
       IN  CopiesIn(x, table) + Copies(table, S \ {x})

Rank(status) ==
  CASE status = "none" -> 0
    [] status = "waiting" -> 1
    [] status = "active" -> 2
    [] status = "ended" -> 3

\* slot r takes a step
Steps(r) == req'[r] # req[r]

\* slot r's handler returns
Returns(r) == ~Free(r) /\ Free(r)'

\* C1: the status of a session only moves forward along waiting, active,
\* ended: no step takes a session from ended to active or waiting, nor
\* from active to waiting.
C1_StatusOnlyForward ==
  [][\A s \in SessionIds :
       Rank(sessions'[s].status) >= Rank(sessions[s].status)]_vars

\* the frames of make_guess that hold is_correct and score: a handler that is
\* at the POST of the guess, and the handler that returned last if it had
\* found the author
Scored ==
  {[guessed |-> req[r].guessed, actual |-> req[r].actual,
    is_correct |-> req[r].is_correct, score |-> req[r].score] :
     r \in {x \in Reqs : At(x, "make_guess", "save")}}
  \cup
  (IF last.op = "make_guess" /\ last.actual # "-"
   THEN {[guessed |-> last.guessed, actual |-> last.actual,
          is_correct |-> last.is_correct, score |-> last.score]}
   ELSE {})

\* C2: for every guess that has passed the session gate, the duplicate check
\* and the author lookup, correct = (guessed_username = true author), score
\* is 5 iff the author and the guessed name are both the AI sentinel, 2 iff
\* the guess is correct and the author is not the sentinel, and 0 otherwise;
\* the true author is the username of a confession row with the guess's
\* session and text.
C2_Scoring ==
  /\ \A f \in Scored :
       /\ f.is_correct = (f.guessed = f.actual)
       /\ f.score = 5 <=> (f.actual = AI /\ f.guessed = AI)
       /\ f.score = 2 <=> (f.is_correct /\ f.actual # AI)
       /\ f.score = 0 <=> ~f.is_correct
       /\ f.score \in {0, 2, 5}
  /\ \A r \in Reqs :
       At(r, "make_guess", "save") =>
         \E c \in AuthorRows(req[r].session_id, req[r].text) :
           c.username = req[r].actual

\* C2, its case: a guess that named the sentinel on the sentinel's confession
C2_BonusScored ==
  /\ last.op = "make_guess"
  /\ last.actual = AI /\ last.guessed = AI
  /\ last.score = 5 /\ last.is_correct

\* the row make_guess saves for frame q with the derived values of response a
GuessRow(q, a) ==
  [guesser |-> q.username, session_id |-> q.session_id,
   confession |-> q.text, guessed_username |-> q.guessed,
   correct |-> a.is_correct, score |-> a.score]

\* C3: a guess that passes the session gate, the duplicate check and the
\* author lookup returns having added exactly one Guess row with the derived
\* correct and score, and reports them ("Guess recorded"), or, if the store
\* rejected the write, returns the store's status and adds no row.
C3_GuessPersisted ==
  [][\A r \in Reqs :
       (req[r].op = "make_guess" /\ Returns(r) /\ last'.actual # "-") =>
         \/ /\ last'.body = "Guess recorded"
            /\ guesses' = Insert(guesses, GuessRow(req[r], last'))
            /\ req[r].pc = "save" =>
                 (last'.is_correct = req[r].is_correct /\ last'.score = req[r].score)
         \/ /\ last'.body = "Guess save failed"
            /\ Raises(last'.status_code)
            /\ guesses' = guesses]_vars

\* the session step of a confess request with a valid body, or of a guess
AtGate(r) ==
  \/ At(r, "submit_confession", "session") /\ must_not_be_empty(req[r].text)
  \/ At(r, "make_guess", "session")

PlayerCount(u, s) ==
  Copies(players, {p \in Rows(players) : p.username = u /\ p.session_id = s})

ConfessionCount(u, s) ==
  Copies(confessions,
         {c \in Rows(confessions) : c.username = u /\ c.session_id = s})

C6_RoundNeverDecreases ==
  [][\A s \in SessionIds :
       /\ sessions'[s].current_round >= sessions[s].current_round
       /\ (sessions[s] = NoSession /\ sessions'[s] # NoSession) =>
            sessions'[s].current_round = 1]_vars

\* C7: when a guess returns with score s > 0 for guesser g in session S, the
\* leaderboard holds an entry for g in S with score s.
C7_PointsOnLeaderboard ==
  [][\A r \in Reqs :
       (req[r].op = "make_guess" /\ Returns(r) /\ last'.score > 0) =>
         \E e \in Rows(leaderboard') :
           /\ e.username = req[r].username
           /\ e.session_id = req[r].session_id
           /\ e.score = last'.score]_vars

GuessCount(g, s, t) == Copies(guesses, GuessRows(g, s, t))

C9_NoBlankConfession ==
  \A c \in Rows(confessions) : Strip(c.confession) # << >>

\* C10: a step of a join request whose (username, session_id) pair has a
\* Player row leaves the players table unchanged, and the request answers
\* "Player already in session".
C10_JoinIdempotent ==
  [][\A r \in Reqs :
       (req[r].op = "join_game" /\ Steps(r)
          /\ PlayerRows(req[r].username, req[r].session_id) # {}) =>
         /\ players' = players
         /\ Free(r)' =>
              (last'.status = 200 /\ last'.body = "Player already in session")]_vars

\* the confession texts stored for session s, with their multiplicities
TextsOf(s) ==
  LET of(t) == {c \in Rows(confessions) : c.session_id = s /\ c.confession = t}
  IN  [t \in {c.confession : c \in {x \in Rows(confessions) : x.session_id = s}}
         |-> Copies(confessions, of(t))]

\* the last response is a confession listing
Listed(a) == a.op = "get_confessions" /\ a.body = "confessions"

\* C11: the list GET /confessions/{session_id} returns holds exactly the
\* confession texts stored for that session, with their multiplicities and
\* nothing else (no author, nothing of another session); the call leaves the
\* store unchanged; and two consecutive calls for a session with no write
\* between them return the same multiset.
C11_ListIsPermutation ==
  [][/\ Listed(last') =>
          /\ SeqToBag(last'.rows) = TextsOf(last'.session_id)
          /\ store' = store
     /\ (Listed(last) /\ Listed(last') /\ last'.session_id = last.session_id) =>
          SeqToBag(last'.rows) = SeqToBag(last.rows)]_vars

\* C11, its case: a listing of one text while another session holds a
\* confession, or a listing of two texts
C11_Listed ==
  /\ Listed(last)
  /\ \/ Len(last.rows) = 1 /\ BagCardinality(confessions) = 2
     \/ Len(last.rows) = 2

\* the leaderboard entries a response a lists from: all, or its session's
Ranked(a) ==
  IF a.op = "get_leaderboard" THEN Rows(leaderboard)
  ELSE {e \in Rows(leaderboard) : e.session_id = a.session_id}

\* how many of them have username u and score v
EntryCount(a, u, v) ==
  Copies(leaderboard, {e \in Ranked(a) : e.username = u /\ e.score = v})

LeaderboardListed(a) ==
  a.op \in {"get_leaderboard", "get_session_leaderboard"} /\ a.body = "entries"

\* C12: a submit-score that succeeds appends exactly one entry and no step
\* changes or removes an entry; a leaderboard read returns min(limit, number of
\* entries) entries by falling score, each entry as many times as it is
\* stored (none merged) and none left out that has a higher score than one
\* returned; the per-session read does so among the entries of its session.
C12_Leaderboard ==
  [][/\ \A e \in Rows(leaderboard) :
          CopiesIn(e, leaderboard') >= CopiesIn(e, leaderboard)
     /\ leaderboard' # leaderboard =>
          /\ BagCardinality(leaderboard') = BagCardinality(leaderboard) + 1
          /\ last'.op = "submit_score" /\ last'.body = "Score saved"
     /\ (last'.op = "submit_score" /\ last'.status # 200) =>
          leaderboard' = leaderboard
     /\ LeaderboardListed(last') =>
          LET a == last'
              n == Copies(leaderboard, Ranked(a))
          IN  /\ store' = store
              /\ Len(a.rows) = IF a.limit < n THEN a.limit ELSE n
              /\ \A i \in 1..(Len(a.rows) - 1) :
                   a.rows[i].score >= a.rows[i + 1].score
              /\ \A i \in 1..Len(a.rows) :
                   /\ DOMAIN a.rows[i] = {"username", "score"}
                   /\ SeqToBag(a.rows)[a.rows[i]]
                        <= EntryCount(a, a.rows[i].username, a.rows[i].score)
                   /\ \A e \in Ranked(a) :
                        e.score > a.rows[i].score =>
                          /\ [username |-> e.username, score |-> e.score]
                               \in DOMAIN SeqToBag(a.rows)
                          /\ SeqToBag(a.rows)[[username |-> e.username,
                                               score |-> e.score]]
                               = EntryCount(a, e.username, e.score)]_vars

\* C12, its case: two entries of one username listed, the higher score first,
\* or the one entry of higher score listed under limit 1
C12_Ranked ==
  /\ LeaderboardListed(last)
  /\ \/ /\ Len(last.rows) = 2
        /\ last.rows[1].username = last.rows[2].username
        /\ last.rows[1].score > last.rows[2].score
     \/ /\ last.limit = 1 /\ Len(last.rows) = 1
        /\ BagCardinality(leaderboard) = 2
        /\ \E e \in Rows(leaderboard) : e.score < last.rows[1].score

\* the Confession rows whose author is the AI sentinel
SentinelCount == Copies(confessions, {c \in Rows(confessions) : c.username = AI})

\* C13: no step of a confess request adds a Confession row whose username is
\* the AI sentinel (nor is there a Player row with that username), so that
\* only inject-ai-confession adds the rows a guess can score 5 against.
C13_SentinelReserved ==
  [][/\ \A r \in Reqs :
          (req[r].op = "submit_confession" /\ Steps(r)) =>
            SentinelCount' = SentinelCount
     /\ \A p \in Rows(players') : p.username # AI]_vars

\* C14: a join, confess or guess request one of whose store calls failed ends
\* with an error response and inserts no row.  (The request here is one whose
\* existence read failed.)
C14_FailureSurfaces ==
  [][\A r \in Reqs :
       (/\ req[r].op \in {"join_game", "submit_confession", "make_guess"}
        /\ Returns(r) /\ Raises(req[r].check_resp)) =>
         /\ store' = store
         /\ last'.status >= 400 \/ last'.status_code # 0]_vars

\* C15: a next-round request that runs alone leaves every status as it is;
\* on a session that exists and with the store serving its calls it answers
\* 200 having raised current_round by exactly 1, whatever the status; on a
\* session that does not exist it answers 404; and but for that one increment
\* it leaves the store unchanged.
C15_NextRound ==
  [][\A r \in Reqs :
       (req[r].op = "next_round" /\ Steps(r)) =>
         LET s == req[r].session_id
         IN  /\ \A x \in SessionIds : sessions'[x].status = sessions[x].status
             /\ <<players, confessions, guesses, leaderboard>>'
                  = <<players, confessions, guesses, leaderboard>>
             /\ At(r, "next_round", "read") => store' = store
             /\ sessions[s] = NoSession =>
                  (Free(r)' /\ last'.status = 404 /\ store' = store)
             /\ (Free(r)' /\ last'.status = 200) =>
                  /\ sessions[s] # NoSession
                  /\ sessions' = [sessions EXCEPT
                                    ![s].current_round = sessions[s].current_round + 1]
             /\ (Free(r)' /\ last'.status # 200) => store' = store]_vars

\* C15, its case: the round of an ended session was advanced
C15_AdvancedWhenEnded ==
  /\ last.op = "next_round" /\ last.status = 200
  /\ sessions[last.session_id].status = "ended"
  /\ sessions[last.session_id].current_round > 1

\* the rows of a table with username u and session_id s
CountIn(table, u, s) ==
  Copies(table, {x \in Rows(table) : x.username = u /\ x.session_id = s})

\* C16: the existence read and the insert of confess and of join are two
\* store calls, and the insert does not look at the table: an insert step
\* that the store accepts adds the row of its request whatever rows the table
\* holds, so two requests that both passed the read both insert.
C16_InsertAfterCheck ==
  [][\A r \in Reqs :
       LET u == req[r].username
           s == req[r].session_id
       IN  /\ (At(r, "submit_confession", "insert") /\ Steps(r)
               /\ last'.status_code = 0) =>
                 /\ CountIn(confessions', u, s) = CountIn(confessions, u, s) + 1
                 /\ BagCardinality(confessions') = BagCardinality(confessions) + 1
           /\ (At(r, "join_game", "insert") /\ Steps(r)
               /\ last'.status_code = 0) =>
                 /\ CountIn(players', u, s) = CountIn(players, u, s) + 1
                 /\ BagCardinality(players') = BagCardinality(players) + 1
           /\ (At(r, "submit_confession", "check") \/ At(r, "join_game", "check")) =>
                 (Steps(r) => store' = store)]_vars

\* C16, its case: with every read of the store succeeding, two Confession
\* rows and two Player rows of alice in one session
C16_BothInserted ==
  \E s \in SessionIds :
    ConfessionCount("alice", s) = 2 /\ PlayerCount("alice", s) = 2

\* C17: the status read and the insert of a confess request are separate
\* store calls and the insert reads no status: the insert step of a request
\* that passed the gate answers 200 whatever the status of its session has
\* become, and adds the request's row unless the store refuses the write.
C17_WriteAfterGate ==
  [][\A r \in Reqs :
       (At(r, "submit_confession", "insert") /\ Steps(r)) =>
         LET row == [username |-> req[r].username,
                     session_id |-> req[r].session_id,
                     confession |-> req[r].text]
         IN  /\ Free(r)' /\ last'.status = 200
             /\ sessions' = sessions
             /\ IF last'.status_code = 0
                THEN /\ last'.body = "Confession submitted successfully"
                     /\ row \in Rows(confessions')
                     /\ BagCardinality(confessions')
                          = BagCardinality(confessions) + 1
                ELSE confessions' = confessions]_vars

\* C17, its case: the handler that completed last is a confess that wrote its
\* row, and the status of its session is ended (end-session completed
\* before the write, after the request had read the status active)
C17_WrittenWhenEnded ==
  /\ last.op = "submit_confession"
  /\ last.body = "Confession submitted successfully"
  /\ sessions[last.session_id].status = "ended"

\* C18: every call of inject-ai-confession that the store accepts adds
\* exactly one Confession row, authored by the AI sentinel, to one session,
\* whatever rows the session has, keeps every other row, and so makes the
\* listing of that session one text longer; it is never refused as a
\* duplicate.
C18_InjectAppends ==
  [][(last'.op = "inject_ai_confession"
        /\ (last' # last \/ confessions' # confessions)) =>
       /\ last'.status \in {200, 500}
       /\ last'.status = 500 => store' = store
       /\ last'.status = 200 =>
            /\ \A c \in Rows(confessions) :
                 CopiesIn(c, confessions') >= CopiesIn(c, confessions)
            /\ BagCardinality(confessions')
                 = BagCardinality(confessions) + 1
            /\ \E s \in SessionIds :
                 /\ CountIn(confessions', AI, s) = CountIn(confessions, AI, s) + 1
                 /\ BagCardinality(TextsOf(s)')
                      = BagCardinality(TextsOf(s)) + 1]_vars

\* C18, its case: the listing of a session with two injected confessions
\* holds two texts (the rows have the empty text, which only the injection
\* stores)
C18_TwoInjected ==
  LET row == [username |-> AI, session_id |-> last.session_id,
              confession |-> << >>]
  IN  /\ Listed(last) /\ Len(last.rows) = 2
      /\ row \in Rows(confessions) /\ CopiesIn(row, confessions) = 2

\* C19: inject-ai-confession reads no session: a call is never refused with
\* 403 or 404, it leaves the sessions as they are, and it adds its row exactly
\* when the store accepts the write, whatever the status of the session and
\* whether or not the session exists.
C19_InjectUngated ==
  [][(last'.op = "inject_ai_confession"
        /\ (last' # last \/ confessions' # confessions)) =>
       /\ sessions' = sessions
       /\ last'.status \notin {403, 404}
       /\ last'.status = 200 <=> confessions' # confessions]_vars

\* C19, its case: injected confessions (the empty text, which only the
\* injection stores) in a session that does not exist and in a session that
\* is waiting: neither session was ever active
C19_InjectedNeverActive ==
  \E c, d \in Rows(confessions) :
    /\ c.confession = << >> /\ d.confession = << >>
    /\ sessions[c.session_id] = NoSession
    /\ sessions[d.session_id].status = "waiting"

\* C20: a start-session or end-session call creates no session, leaves every
\* current_round and every player, confession, guess and leaderboard row as
\* they are, and changes at most the status of one session, to active
\* (start) or ended (end); a session comes into existence only in a step of
\* create-session, with status waiting and current_round 1.
C20_StartEndFrame ==
  [][/\ (last'.op \in {"start_session", "end_session"}
          /\ (last' # last \/ sessions' # sessions)) =>
          /\ \A s \in SessionIds :
               /\ sessions[s] = NoSession => sessions'[s] = NoSession
               /\ sessions'[s].current_round = sessions[s].current_round
               /\ sessions'[s].status # sessions[s].status =>
                    /\ last'.status = 200
                    /\ sessions'[s].status
                         = IF last'.op = "start_session" THEN "active" ELSE "ended"
          /\ Cardinality({s \in SessionIds : sessions'[s] # sessions[s]}) <= 1
          /\ <<players, confessions, guesses, leaderboard>>'
               = <<players, confessions, guesses, leaderboard>>
     /\ \A s \in SessionIds :
          (sessions[s] = NoSession /\ sessions'[s] # NoSession) =>
            /\ last'.op = "create_session" /\ last'.status = 200
            /\ sessions'[s] = [status |-> "waiting", current_round |-> 1]]_vars

\* C20, its case: start-session or end-session answered 200 and no session
\* exists
C20_SuccessOnNoSession ==
  /\ last.op \in {"start_session", "end_session"} /\ last.status = 200
  /\ \A s \in SessionIds : sessions[s] = NoSession

=============================================================================
